---- MODULE Spec2Model ----
EXTENDS Integers, FiniteSets, Sequences, TLC

(***************************************************************************)
(* Model of QuantumGate::Implementation::Network::Endpoint (the tagged     *)
(* union over IPEndpoint / BTHEndpoint) and of                             *)
(* QuantumGate::AVExtender::SourceReader (Open / Close / OnReadSample).    *)
(***************************************************************************)

\* Largest relay port (circuit identifier) the concrete endpoints carry.
MaxRelayPort == 1

\* Largest capture buffer, in bytes, and largest sample length.
MaxBuf == 2

\* Most ReadSample requests outstanding at a time.
MaxPending == 2

\* The Endpoint objects of the program under analysis.
Objs == {"a", "b"}

\* Network::Protocol and Endpoint::Type.
Protocol == {"Unspecified", "TCP", "UDP", "ICMP", "RFCOMM"}
Type == {"Unspecified", "IP", "BTH"}

Addresses == {"10.0.0.5"}
Ports == {9000}
RelayPorts == 0..MaxRelayPort
RelayHops == {0, 2}

\* IPEndpoint constructed with protocol p, address a, port, relay port rp
\* and relay hop rh: a protocol that is not an IP protocol yields a value
\* whose protocol is Unspecified.
IPEndpoint(p, a, port, rp, rh) ==
    [Protocol |-> IF p \in {"TCP", "UDP", "ICMP"} THEN p ELSE "Unspecified",
     Address |-> a, Port |-> port, RelayPort |-> rp, RelayHop |-> rh]

\* BTHEndpoint constructed with protocol p, device address a, service channel
\* port, relay port rp and relay hop rh: a protocol other than RFCOMM yields
\* a value whose protocol is Unspecified.
BTHEndpoint(p, a, port, rp, rh) ==
    [Protocol |-> IF p = "RFCOMM" THEN p ELSE "Unspecified",
     Address |-> a, Port |-> port, RelayPort |-> rp, RelayHop |-> rh]

\* The anonymous union while m_Dummy is its active member: the int holds 0.
\* "m_Dummy = 0" writes sizeof(int) bytes; what the rest of the storage holds
\* (bytes of a member written before, or nothing yet) is no part of the value.
DummyZero == [m_Dummy |-> 0]

\* A number outside the modelled ports, relay ports and relay hops; it stands
\* for every such number.
OtherNumber == -1

\* The IPEndpoint values a program can hold: those its constructor yields.
\* None holds RFCOMM, so none takes CopyOrMove to "default: assert(false)".
IPEndpoints ==
    {IPEndpoint(p, a, port, rp, rh) :
        p \in Protocol, a \in Addresses, port \in Ports,
        rp \in RelayPorts, rh \in RelayHops}

\* The BTHEndpoint values a program can hold; none holds TCP, UDP or ICMP.
BTHEndpoints ==
    {BTHEndpoint(p, a, port, rp, rh) :
        p \in Protocol, a \in Addresses, port \in Ports,
        rp \in RelayPorts, rh \in RelayHops}

\* The protocols with which the IPEndpoint / BTHEndpoint e can have been
\* constructed.
BuiltWithIP(e) ==
    {p \in Protocol : IPEndpoint(p, e.Address, e.Port, e.RelayPort, e.RelayHop) = e}
BuiltWithBTH(e) ==
    {p \in Protocol : BTHEndpoint(p, e.Address, e.Port, e.RelayPort, e.RelayHop) = e}

\* What a read of m_IPEndpoint or m_BTHEndpoint can yield while that member
\* is not the active one: any object representation, field by field a
\* modelled value or one outside the modelled range ("other", OtherNumber; for
\* the protocol a value that is no enumerator).
Indeterminate == [Protocol : Protocol \cup {"other"},
                  Address : Addresses \cup {"other"},
                  Port : Ports \cup {OtherNumber},
                  RelayPort : RelayPorts \cup {OtherNumber},
                  RelayHop : RelayHops \cup {OtherNumber}]

VARIABLES objs,      \* objs[o]: m_Type, the union member last written, its value
          last,      \* the last operation: its operands before it ran, its result
          aborted,   \* an assert() failed in a build that checks assertions
          ndebug,    \* TRUE: assertions are compiled out (NDEBUG)
          reader,    \* SourceReaderData: Source, SourceReader, Format, RawData
          srType,    \* SourceReader::m_Type
          pending,   \* ReadSample requests whose OnReadSample is still to come
          openLast,  \* the last Open: the step that failed, the result returned
          nullDeref, \* OnReadSample called ReadSample through a null SourceReader
          lock,      \* the holder of the unique lock on m_SourceReader
          pc,        \* where the application thread and the callback thread are
          args       \* hrStatus and pSample of the OnReadSample call under way

vars == <<objs, last, aborted, ndebug, reader, srType, pending, openLast, nullDeref,
          lock, pc, args>>
epVars == <<objs, last, aborted>>
srVars == <<reader, pending, openLast, nullDeref, lock, pc, args>>

----------------------------------------------------------------------------
(* Endpoint *)

\* Endpoint() : m_Type(Type::Unspecified), m_Dummy(0)
DefaultEndpoint == [m_Type |-> "Unspecified", member |-> "Dummy", payload |-> DummyZero]

GetType(e) == e.m_Type

\* Reading union member m of e: the values the read can yield. A member
\* other than the active one was never written in this storage, or has been
\* overwritten in part: the read is undefined and yields any value.
ReadMember(e, m) ==
    IF e.member = m THEN {e.payload}
    ELSE Indeterminate

\* IPEndpoint::operator== and BTHEndpoint::operator==: every field,
\* relay port and relay hop included.
ConcreteEq(x, y) ==
    /\ x.Protocol = y.Protocol
    /\ x.Address = y.Address
    /\ x.Port = y.Port
    /\ x.RelayPort = y.RelayPort
    /\ x.RelayHop = y.RelayHop

OpEqTypeOnly(a, b) == a.m_Type = b.m_Type

\* Endpoint::operator==
OpEq(a, b) ==
    IF a.m_Type = b.m_Type
    THEN CASE a.m_Type = "IP" -> ConcreteEq(a.payload, b.payload)
           [] a.m_Type = "BTH" -> ConcreteEq(a.payload, b.payload)
           [] a.m_Type = "Unspecified" -> TRUE
    ELSE FALSE

\* Endpoint::operator!=
OpNe(a, b) == ~OpEq(a, b)

GetIPEndpointUnchecked(e) ==
    [assertHolds |-> TRUE, values |-> ReadMember(e, "IP")]

\* Endpoint::GetIPEndpoint: assert(m_Type == Type::IP); return m_IPEndpoint
GetIPEndpoint(e) ==
    [assertHolds |-> (e.m_Type = "IP"), values |-> ReadMember(e, "IP")]

\* Endpoint::GetBTHEndpoint: assert(m_Type == Type::BTH); return m_BTHEndpoint
GetBTHEndpoint(e) ==
    [assertHolds |-> (e.m_Type = "BTH"), values |-> ReadMember(e, "BTH")]

\* Endpoint::GetRelayPort
GetRelayPort(e) ==
    CASE e.m_Type = "IP" -> e.payload.RelayPort
      [] e.m_Type = "BTH" -> e.payload.RelayPort
      [] e.m_Type = "Unspecified" -> 0

\* Endpoint::GetRelayHop
GetRelayHop(e) ==
    CASE e.m_Type = "IP" -> e.payload.RelayHop
      [] e.m_Type = "BTH" -> e.payload.RelayHop
      [] e.m_Type = "Unspecified" -> 0

CopyResetsRelayPort(other) ==
    CASE other.m_Type = "IP" ->
           [m_Type |-> other.m_Type, member |-> "IP",
            payload |-> [other.payload EXCEPT !.RelayPort = 0]]
      [] other.m_Type = "BTH" ->
           [m_Type |-> other.m_Type, member |-> "BTH",
            payload |-> [other.payload EXCEPT !.RelayPort = 0]]
      [] other.m_Type = "Unspecified" ->
           [m_Type |-> "Unspecified", member |-> "Dummy", payload |-> DummyZero]

\* Endpoint::Copy followed by the store of its result into m_Type.
Copy(other) ==
    CASE other.m_Type = "IP" ->
           [m_Type |-> other.m_Type, member |-> "IP", payload |-> other.payload]
      [] other.m_Type = "BTH" ->
           [m_Type |-> other.m_Type, member |-> "BTH", payload |-> other.payload]
      [] other.m_Type = "Unspecified" ->
           [m_Type |-> "Unspecified", member |-> "Dummy", payload |-> DummyZero]

MoveKeepsSource(other) ==
    [self |-> IF other.m_Type = "Unspecified"
              THEN [m_Type |-> "Unspecified", member |-> "Dummy", payload |-> DummyZero]
              ELSE other,
     other |-> other]

\* Endpoint::Move followed by the store of its result into m_Type: self is
\* the destination, other the source after std::exchange reset its m_Type.
Move(other) ==
    [self |-> CASE other.m_Type = "IP" ->
                     [m_Type |-> "IP", member |-> "IP", payload |-> other.payload]
                [] other.m_Type = "BTH" ->
                     [m_Type |-> "BTH", member |-> "BTH", payload |-> other.payload]
                [] other.m_Type = "Unspecified" ->
                     [m_Type |-> "Unspecified", member |-> "Dummy",
                      payload |-> DummyZero],
     other |-> [other EXCEPT !.m_Type = "Unspecified"]]

CopyOrMoveIPNoDegrade(other) ==
    [self |-> [m_Type |-> "IP", member |-> "IP", payload |-> other],
     assertFailed |-> FALSE]

CopyOrMoveIPDropsHop(other) ==
    IF other.Protocol \in {"TCP", "UDP", "ICMP"}
    THEN [self |-> [m_Type |-> "IP", member |-> "IP",
                    payload |-> [other EXCEPT !.RelayHop = 0]],
          assertFailed |-> FALSE]
    ELSE [self |-> DefaultEndpoint,
          assertFailed |-> (other.Protocol # "Unspecified")]

CopyOrMoveIPAssertsUnspecified(other) ==
    IF other.Protocol \in {"TCP", "UDP", "ICMP"}
    THEN [self |-> [m_Type |-> "IP", member |-> "IP", payload |-> other],
          assertFailed |-> FALSE]
    ELSE [self |-> DefaultEndpoint, assertFailed |-> TRUE]

\* Endpoint::CopyOrMove(IPEndpoint) followed by the store of its result into
\* m_Type; assertFailed: the switch reached "default: assert(false)".
CopyOrMoveIP(other) ==
    CASE other.Protocol \in {"TCP", "UDP", "ICMP"} ->
           [self |-> [m_Type |-> "IP", member |-> "IP", payload |-> other],
            assertFailed |-> FALSE]
      [] other.Protocol = "Unspecified" ->
           [self |-> [m_Type |-> "Unspecified", member |-> "Dummy",
                      payload |-> DummyZero],
            assertFailed |-> FALSE]
      [] OTHER ->
           [self |-> [m_Type |-> "Unspecified", member |-> "Dummy",
                      payload |-> DummyZero],
            assertFailed |-> TRUE]

CopyOrMoveBTHKeepsType(other) ==
    CASE other.Protocol \in {"RFCOMM", "Unspecified"} ->
           [self |-> [m_Type |-> "BTH", member |-> "BTH", payload |-> other],
            assertFailed |-> FALSE]
      [] OTHER ->
           [self |-> [m_Type |-> "Unspecified", member |-> "Dummy",
                      payload |-> DummyZero],
            assertFailed |-> TRUE]

\* Endpoint::CopyOrMove(BTHEndpoint) followed by the store of its result.
CopyOrMoveBTH(other) ==
    CASE other.Protocol = "RFCOMM" ->
           [self |-> [m_Type |-> "BTH", member |-> "BTH", payload |-> other],
            assertFailed |-> FALSE]
      [] other.Protocol = "Unspecified" ->
           [self |-> [m_Type |-> "Unspecified", member |-> "Dummy",
                      payload |-> DummyZero],
            assertFailed |-> FALSE]
      [] OTHER ->
           [self |-> [m_Type |-> "Unspecified", member |-> "Dummy",
                      payload |-> DummyZero],
            assertFailed |-> TRUE]

\* Endpoint::operator=(const Endpoint&) applied to objects i and j of s.
CopyAssign(s, i, j) ==
    IF i = j THEN s ELSE [s EXCEPT ![i] = Copy(s[j])]

MoveAssignResetsSelf(s, i, j) ==
    IF i = j THEN [s EXCEPT ![i] = [s[i] EXCEPT !.m_Type = "Unspecified"]]
    ELSE [s EXCEPT ![i] = Move(s[j]).self, ![j] = Move(s[j]).other]

\* Endpoint::operator=(Endpoint&&) applied to objects i and j of s.
MoveAssign(s, i, j) ==
    IF i = j THEN s
    ELSE [s EXCEPT ![i] = Move(s[j]).self, ![j] = Move(s[j]).other]

\* No concrete endpoint is an argument of the operation.
NoConcrete == [Protocol |-> "none", Address |-> "none", Port |-> 0,
               RelayPort |-> 0, RelayHop |-> 0]

\* values: the values the call can return, one of which it does return.
NoRet == [outcome |-> "none", values |-> {}, eq |-> FALSE, ne |-> FALSE]

\* req: the protocol the concrete endpoint argument was constructed with.
Op(op, dst, src, pre, arg, ret) ==
    [op |-> op, dst |-> dst, src |-> src, pre |-> pre, arg |-> arg, ret |-> ret,
     req |-> "none"]

\* Endpoint() constructed in place of object i.
DefaultConstruct(i) ==
    /\ ~aborted
    /\ objs' = [objs EXCEPT ![i] = DefaultEndpoint]
    /\ last' = Op("Default", i, i, DefaultEndpoint, NoConcrete, NoRet)
    /\ UNCHANGED <<aborted, ndebug, srType>> /\ UNCHANGED srVars

\* assert(false) ends the program when assertions are checked; with NDEBUG
\* the constructor carries on with the result of CopyOrMove. e is the
\* concrete endpoint passed in, as held; p a protocol it was constructed with.
ConstructFrom(i, op, p, e, r) ==
    /\ ~aborted
    /\ IF r.assertFailed /\ ~ndebug
       THEN /\ aborted' = TRUE
            /\ objs' = objs
            /\ last' = [Op(op, i, i, DefaultEndpoint, e,
                           [NoRet EXCEPT !.outcome = "assert_failed"])
                        EXCEPT !.req = p]
       ELSE /\ aborted' = FALSE
            /\ objs' = [objs EXCEPT ![i] = r.self]
            /\ last' = [Op(op, i, i, DefaultEndpoint, e, NoRet) EXCEPT !.req = p]
    /\ UNCHANGED <<ndebug, srType>> /\ UNCHANGED srVars

\* Endpoint(T&&) with T = IPEndpoint, constructed in place of object i from
\* the IPEndpoint e as the caller holds it; built is a protocol e was
\* constructed with. The constructor does nothing to e but hand it to
\* CopyOrMove.
ConstructIP(i) ==
    \E e \in IPEndpoints : \E built \in BuiltWithIP(e) :
        ConstructFrom(i, "ConstructIP", built, e, CopyOrMoveIP(e))

\* Endpoint(T&&) with T = BTHEndpoint, constructed in place of object i from
\* the BTHEndpoint e as the caller holds it.
ConstructBTH(i) ==
    \E e \in BTHEndpoints : \E built \in BuiltWithBTH(e) :
        ConstructFrom(i, "ConstructBTH", built, e, CopyOrMoveBTH(e))

\* Endpoint(const Endpoint&): object i constructed from another object j.
CopyConstruct(i, j) ==
    /\ ~aborted /\ i # j
    /\ objs' = [objs EXCEPT ![i] = Copy(objs[j])]
    /\ last' = Op("CopyConstruct", i, j, objs[j], NoConcrete, NoRet)
    /\ UNCHANGED <<aborted, ndebug, srType>> /\ UNCHANGED srVars

\* Endpoint(Endpoint&&): object i constructed from another object j.
MoveConstruct(i, j) ==
    /\ ~aborted /\ i # j
    /\ objs' = [objs EXCEPT ![i] = Move(objs[j]).self, ![j] = Move(objs[j]).other]
    /\ last' = Op("MoveConstruct", i, j, objs[j], NoConcrete, NoRet)
    /\ UNCHANGED <<aborted, ndebug, srType>> /\ UNCHANGED srVars

\* i = j, for any two objects, the same one included.
CopyAssignStep(i, j) ==
    /\ ~aborted
    /\ objs' = CopyAssign(objs, i, j)
    /\ last' = Op("CopyAssign", i, j, objs[j], NoConcrete, NoRet)
    /\ UNCHANGED <<aborted, ndebug, srType>> /\ UNCHANGED srVars

\* i = std::move(j), for any two objects, the same one included.
MoveAssignStep(i, j) ==
    /\ ~aborted
    /\ objs' = MoveAssign(objs, i, j)
    /\ last' = Op("MoveAssign", i, j, objs[j], NoConcrete, NoRet)
    /\ UNCHANGED <<aborted, ndebug, srType>> /\ UNCHANGED srVars

\* i == j and i != j evaluated.
Compare(i, j) ==
    /\ ~aborted
    /\ last' = Op("Compare", i, j, objs[j], NoConcrete,
                  [NoRet EXCEPT !.outcome = "returned",
                                !.eq = OpEq(objs[i], objs[j]),
                                !.ne = OpNe(objs[i], objs[j])])
    /\ UNCHANGED <<objs, aborted, ndebug, srType>> /\ UNCHANGED srVars

\* A call of an accessor that asserts on the active type: the assertion
\* ends the program when it is checked and fails; otherwise the member is
\* read and returned. The read of a member that is not active returns any
\* one of r.values, and the call is recorded with all of them.
Accessor(i, op, r) ==
    /\ ~aborted
    /\ IF ~r.assertHolds /\ ~ndebug
       THEN /\ aborted' = TRUE
            /\ last' = Op(op, i, i, objs[i], NoConcrete,
                          [NoRet EXCEPT !.outcome = "assert_failed"])
       ELSE /\ aborted' = FALSE
            /\ last' = Op(op, i, i, objs[i], NoConcrete,
                          [NoRet EXCEPT !.outcome = "returned", !.values = r.values])
    /\ UNCHANGED <<objs, ndebug, srType>> /\ UNCHANGED srVars

CallGetIPEndpoint(i) == Accessor(i, "GetIPEndpoint", GetIPEndpoint(objs[i]))

CallGetBTHEndpoint(i) == Accessor(i, "GetBTHEndpoint", GetBTHEndpoint(objs[i]))


----------------------------------------------------------------------------
(* SourceReader *)

AVResultCode == {"Succeeded", "Failed", "FailedCreateVideoDeviceSource",
                 "FailedCreateAudioDeviceSource", "FailedNoSupportedVideoMediaType",
                 "FailedNoSupportedAudioMediaType", "FailedOutOfMemory"}

\* Result<>::Succeeded / Result<>::Failed
Succeeded(code) == code = "Succeeded"
Failed(code) == ~Succeeded(code)

\* The calls of Open and CreateSourceReader that can fail, in program order.
OpenSteps == <<"MFCreateAttributes", "SetGUID", "SetString", "MFCreateDeviceSource",
               "CSR_MFCreateAttributes", "SetUINT32", "SetUnknown",
               "MFCreateSourceReaderFromMediaSource", "GetSupportedMediaType",
               "SetCurrentMediaType", "OnMediaTypeChanged", "GetBufferSize",
               "Allocate", "ReadSample">>
StepNames == {OpenSteps[k] : k \in 1..Len(OpenSteps)}
FailAt == StepNames \cup {"None"}

\* The source reader data before Open, and after SourceReaderData::Release.
ClosedData == [Source |-> FALSE, SourceReader |-> FALSE, Format |-> "GUID_NULL",
               RawDataSize |-> 0, RawDataAvailableSize |-> 0]

\* SourceReaderData::Release
Release(d) == ClosedData

\* The test of SourceReader::IsOpen: SourceReader != nullptr
IsOpen(d) == d.SourceReader

\* SourceReader::GetSupportedMediaType: the error code of its result.
GetSupportedMediaType(t, f) ==
    IF f # "GetSupportedMediaType" THEN "Succeeded"
    ELSE IF t = "Video" THEN "FailedNoSupportedVideoMediaType"
    ELSE "FailedNoSupportedAudioMediaType"

\* SourceReader::CreateReaderBuffer: GetBufferSize, then RawData.Allocate.
CreateReaderBuffer(d, f, sz) ==
    CASE f = "GetBufferSize" -> [data |-> d, code |-> "Failed"]
      [] f = "Allocate" -> [data |-> d, code |-> "FailedOutOfMemory"]
      [] OTHER -> [data |-> [d EXCEPT !.RawDataSize = sz], code |-> "Succeeded"]

\* SourceReader::CreateSourceReader on data d of a reader of type t, where
\* step f fails (or none) and GetBufferSize reports sz. requested: the first
\* ReadSample was accepted.
CreateSourceReader(d, t, f, sz) ==
    LET d1 == [d EXCEPT !.SourceReader = TRUE]
        result == GetSupportedMediaType(t, f)
        d2 == [d1 EXCEPT !.Format = "fmt"]
        result2 == CreateReaderBuffer(d2, f, sz)
    IN  CASE f \in {"CSR_MFCreateAttributes", "SetUINT32", "SetUnknown",
                    "MFCreateSourceReaderFromMediaSource"} ->
               [data |-> d, code |-> "Failed", requested |-> FALSE]
          [] Failed(result) ->
               [data |-> d1, code |-> result, requested |-> FALSE]
          [] f = "SetCurrentMediaType" ->
               [data |-> d1, code |-> "Failed", requested |-> FALSE]
          [] f = "OnMediaTypeChanged" ->
               [data |-> d2, code |-> "Failed", requested |-> FALSE]
          [] Failed(result2.code) ->
               \* else return result.GetErrorCode(): the code of result, the
               \* media type lookup that succeeded, not of result2
               [data |-> result2.data, code |-> result, requested |-> FALSE]
          [] f = "ReadSample" ->
               [data |-> result2.data, code |-> "Failed", requested |-> FALSE]
          [] OTHER ->
               [data |-> result2.data, code |-> "Succeeded", requested |-> TRUE]

\* SourceReader::Open on data d: the data it leaves, the code it returns.
OpenResult(d, t, f, sz) ==
    LET src == [d EXCEPT !.Source = TRUE]
        r == CreateSourceReader(src, t, f, sz)
    IN  CASE f \in {"MFCreateAttributes", "SetGUID", "SetString"} ->
               [data |-> d, code |-> "Failed", requested |-> FALSE]
          [] f = "MFCreateDeviceSource" ->
               [data |-> d,
                code |-> IF t = "Audio" THEN "FailedCreateAudioDeviceSource"
                         ELSE "FailedCreateVideoDeviceSource",
                requested |-> FALSE]
          [] Failed(r.code) ->
               [data |-> Release(r.data), code |-> r.code, requested |-> FALSE]
          [] OTHER -> r

NoOpen == [called |-> FALSE, wasOpen |-> FALSE, failAt |-> "None", code |-> "Succeeded"]

\* The body of SourceReader::OnReadSample on data d: hrOk is
\* SUCCEEDED(hrStatus), sample is pSample != nullptr, len the length of the
\* sample's buffer; bufOk, lockOk, nextOk the outcomes of GetBufferByIndex,
\* Lock and the ReadSample for the next frame. assertFailed: data_length
\* exceeds the buffer; nullDeref: ReadSample is called through a SourceReader
\* that is nullptr; requested: the next sample was requested.
OnReadSampleBody(d, hrOk, sample, bufOk, len, lockOk, nextOk) ==
    LET copied == hrOk /\ sample /\ bufOk /\ lockOk
        clamped == IF len > d.RawDataSize THEN d.RawDataSize ELSE len
        hr == hrOk /\ (sample => bufOk /\ lockOk)
    IN  [assertFailed |-> hrOk /\ sample /\ bufOk /\ len > d.RawDataSize,
         data |-> IF copied THEN [d EXCEPT !.RawDataAvailableSize = clamped] ELSE d,
         nullDeref |-> hr /\ ~d.SourceReader,
         requested |-> hr /\ d.SourceReader /\ nextOk]

----------------------------------------------------------------------------
(* SourceReader, step by step: the application thread calls Open and      *)
(* Close, a Media Foundation worker thread calls OnReadSample; each takes *)
(* the unique lock of m_SourceReader (WithUniqueLock) where the code does *)
(* and holds it to the end of the call.                                   *)

\* The steps of Open that run before it takes the lock.
PreLockSteps == {"MFCreateAttributes", "SetGUID", "SetString"}

NoArgs == [hrOk |-> FALSE, sample |-> FALSE, len |-> 0]

Running == ~aborted /\ ~nullDeref

\* m_SourceReader.WithUniqueLock() by thread t: taken only when free.
WithUniqueLock(t, from, to) ==
    /\ Running
    /\ pc[t] = from
    /\ lock = "free"
    /\ lock' = t
    /\ pc' = [pc EXCEPT ![t] = to]
    /\ UNCHANGED <<reader, pending, openLast, nullDeref, args, ndebug, srType>>
    /\ UNCHANGED epVars

\* Open is called: the attribute store is set up (lines 57-87); a failure
\* there returns Failed without a lock, otherwise Open goes for the lock.
OpenCall ==
    /\ Running
    /\ pc["app"] = "idle"
    /\ \E f \in PreLockSteps \cup {"None"} :
         IF f \in PreLockSteps
         THEN /\ openLast' = [called |-> TRUE, wasOpen |-> IsOpen(reader), failAt |-> f,
                              code |-> OpenResult(reader, srType, f, 1).code]
              /\ UNCHANGED pc
         ELSE /\ pc' = [pc EXCEPT !["app"] = "open_lock"]
              /\ UNCHANGED openLast
    /\ UNCHANGED <<reader, pending, nullDeref, lock, args, ndebug, srType>>
    /\ UNCHANGED epVars

\* Open, line 89.
OpenLock == WithUniqueLock("app", "open_lock", "open_cs")

\* Open, lines 91-106, where step f fails (or none) and GetBufferSize
\* reports sz, and the release of the lock on return.
OpenBody ==
    /\ Running
    /\ pc["app"] = "open_cs"
    /\ \E f \in FailAt \ PreLockSteps, sz \in 1..MaxBuf :
         LET r == OpenResult(reader, srType, f, sz)
         IN  /\ ~r.requested \/ pending < MaxPending
             /\ reader' = r.data
             /\ pending' = IF r.requested THEN pending + 1 ELSE pending
             /\ openLast' = [called |-> TRUE, wasOpen |-> IsOpen(reader),
                             failAt |-> f, code |-> r.code]
    /\ lock' = "free"
    /\ pc' = [pc EXCEPT !["app"] = "idle"]
    /\ UNCHANGED <<nullDeref, args, ndebug, srType>> /\ UNCHANGED epVars

\* Close is called.
CloseCall ==
    /\ Running
    /\ pc["app"] = "idle"
    /\ pc' = [pc EXCEPT !["app"] = "close_lock"]
    /\ UNCHANGED <<reader, pending, openLast, nullDeref, lock, args, ndebug, srType>>
    /\ UNCHANGED epVars

\* Close, line 122: the lock is taken ...
CloseLock == WithUniqueLock("app", "close_lock", "close_cs")

\* ... the data released, and the lock given up.
CloseBody ==
    /\ Running
    /\ pc["app"] = "close_cs"
    /\ reader' = Release(reader)
    /\ openLast' = NoOpen
    /\ lock' = "free"
    /\ pc' = [pc EXCEPT !["app"] = "idle"]
    /\ UNCHANGED <<pending, nullDeref, args, ndebug, srType>> /\ UNCHANGED epVars

\* Media Foundation answers a ReadSample accepted at line 169 or 303: a
\* worker thread enters OnReadSample with its status and sample, whether or
\* not the reader that took the request has been released since.
OnReadSampleCall ==
    /\ Running
    /\ pc["cb"] = "idle"
    /\ pending > 0
    /\ \E hrOk, sample \in BOOLEAN, len \in 0..MaxBuf :
         /\ (~sample => len = 0)
         /\ args' = [hrOk |-> hrOk, sample |-> sample, len |-> len]
    /\ pc' = [pc EXCEPT !["cb"] = "cb_lock"]
    /\ UNCHANGED <<reader, pending, openLast, nullDeref, lock, ndebug, srType>>
    /\ UNCHANGED epVars

\* OnReadSample, line 259.
OnReadSampleLock == WithUniqueLock("cb", "cb_lock", "cb_cs")

\* OnReadSample, lines 261-306, and the release of the lock on return.
OnReadSampleRun ==
    /\ Running
    /\ pc["cb"] = "cb_cs"
    /\ \E bufOk, lockOk, nextOk \in BOOLEAN :
         LET r == OnReadSampleBody(reader, args.hrOk, args.sample, bufOk, args.len,
                                   lockOk, nextOk)
         IN  IF r.assertFailed /\ ~ndebug
             THEN /\ aborted' = TRUE
                  /\ UNCHANGED <<reader, pending, nullDeref, lock, pc, args>>
             ELSE /\ aborted' = FALSE
                  /\ reader' = r.data
                  /\ nullDeref' = r.nullDeref
                  /\ pending' = IF r.requested THEN pending ELSE pending - 1
                  /\ lock' = "free"
                  /\ pc' = [pc EXCEPT !["cb"] = "idle"]
                  /\ args' = NoArgs
    /\ UNCHANGED <<objs, last, openLast, ndebug, srType>>

----------------------------------------------------------------------------

\* Every Endpoint default-constructed; the build either checks assertions or
\* compiles them out.
InitEndpoints ==
    /\ objs = [o \in Objs |-> DefaultEndpoint]
    /\ last = Op("Default", "a", "a", DefaultEndpoint, NoConcrete, NoRet)
    /\ aborted = FALSE
    /\ ndebug \in BOOLEAN

\* SourceReader::SourceReader: nothing opened, no request outstanding.
InitReader ==
    /\ reader = ClosedData
    /\ pending = 0
    /\ openLast = NoOpen
    /\ nullDeref = FALSE
    /\ lock = "free"
    /\ pc = [t \in {"app", "cb"} |-> "idle"]
    /\ args = NoArgs

Init == InitEndpoints /\ InitReader /\ srType = "Video"

InitSourceReader == InitEndpoints /\ InitReader /\ srType \in {"Video", "Audio"}

Next ==
    \/ \E i \in Objs : DefaultConstruct(i)
    \/ \E i \in Objs : ConstructIP(i)
    \/ \E i \in Objs : ConstructBTH(i)
    \/ \E i, j \in Objs : CopyConstruct(i, j)
    \/ \E i, j \in Objs : MoveConstruct(i, j)
    \/ \E i, j \in Objs : CopyAssignStep(i, j)
    \/ \E i, j \in Objs : MoveAssignStep(i, j)
    \/ \E i, j \in Objs : Compare(i, j)
    \/ \E i \in Objs : CallGetIPEndpoint(i)
    \/ \E i \in Objs : CallGetBTHEndpoint(i)

Spec == Init /\ [][Next]_vars

NextThreads ==
    \/ OpenCall
    \/ OpenLock
    \/ OpenBody
    \/ CloseCall
    \/ CloseLock
    \/ CloseBody
    \/ OnReadSampleCall
    \/ OnReadSampleLock
    \/ OnReadSampleRun

SpecThreads == InitSourceReader /\ [][NextThreads]_vars

----------------------------------------------------------------------------
(* Properties of Endpoint *)

IPProtocols == {"TCP", "UDP", "ICMP"}
BTHProtocols == {"RFCOMM"}
ConstructOps == {"ConstructIP", "ConstructBTH"}
FromEndpointOps == {"CopyConstruct", "MoveConstruct", "CopyAssign", "MoveAssign"}
MoveOps == {"MoveConstruct", "MoveAssign"}

\* The protocols valid for the family of the concrete endpoint that
\* construction op takes.
FamilyProtocols(op) == IF op = "ConstructIP" THEN IPProtocols ELSE BTHProtocols

\* The construction recorded in last ran to its end (no assertion ended it).
Constructed == last.op \in ConstructOps /\ last.ret.outcome # "assert_failed"

TypeConsistent(e) ==
    /\ Cardinality({t \in Type : GetType(e) = t}) = 1
    /\ GetType(e) = "IP" =>
         \A v \in GetIPEndpoint(e).values : v.Protocol \in IPProtocols
    /\ GetType(e) = "BTH" =>
         \A v \in GetBTHEndpoint(e).values : v.Protocol \in BTHProtocols

\* C1: in every reachable state of every Endpoint object, destination or
\* source of any operation, the discriminant agrees with the payload: type
\* IP implies a stored IP payload with protocol TCP, UDP or ICMP, type BTH
\* implies a stored BTH payload with protocol RFCOMM, and exactly one of
\* Unspecified, IP, BTH is active.
C1_DiscriminantAgrees == \A o \in Objs : TypeConsistent(objs[o])

\* A BTH endpoint was moved out of its object: the source keeps the BTH bytes
\* under discriminant Unspecified, the destination is BTH.
C1_Witness ==
    /\ last.op = "MoveConstruct"
    /\ GetType(objs[last.dst]) = "BTH"
    /\ GetType(objs[last.src]) = "Unspecified"
    /\ objs[last.src].member = "BTH"

\* C2: round trip. An Endpoint constructed from a concrete IPEndpoint e with
\* protocol TCP, UDP or ICMP has type IP and GetIPEndpoint() == e; one
\* constructed from a BTHEndpoint e with protocol RFCOMM has type BTH and
\* GetBTHEndpoint() == e.
C2_RoundTrip ==
    /\ (last.op = "ConstructIP" /\ last.arg.Protocol \in IPProtocols) =>
         /\ GetType(objs[last.dst]) = "IP"
         /\ GetIPEndpoint(objs[last.dst]).assertHolds
         /\ GetIPEndpoint(objs[last.dst]).values # {}
         /\ \A v \in GetIPEndpoint(objs[last.dst]).values : ConcreteEq(v, last.arg)
    /\ (last.op = "ConstructBTH" /\ last.arg.Protocol \in BTHProtocols) =>
         /\ GetType(objs[last.dst]) = "BTH"
         /\ GetBTHEndpoint(objs[last.dst]).assertHolds
         /\ GetBTHEndpoint(objs[last.dst]).values # {}
         /\ \A v \in GetBTHEndpoint(objs[last.dst]).values : ConcreteEq(v, last.arg)

C2_Witness ==
    /\ last.op = "ConstructIP"
    /\ last.arg.Protocol = "ICMP"
    /\ last.arg.RelayPort = 1
    /\ last.arg.RelayHop = 2
    /\ GetType(objs[last.dst]) = "IP"

\* C3: a move between two distinct objects leaves the source Unspecified,
\* equal to a default-constructed Endpoint and with relay port and relay hop
\* 0, and the destination equal to the value the source held before.
C3_MoveLeavesSourceEmpty ==
    (last.op \in MoveOps /\ last.dst # last.src) =>
        /\ GetType(objs[last.src]) = "Unspecified"
        /\ OpEq(objs[last.src], DefaultEndpoint)
        /\ GetRelayPort(objs[last.src]) = 0
        /\ GetRelayHop(objs[last.src]) = 0
        /\ GetType(objs[last.dst]) = GetType(last.pre)
        /\ OpEq(objs[last.dst], last.pre)

C3_Witness ==
    /\ last.op = "MoveAssign"
    /\ last.dst # last.src
    /\ GetType(last.pre) = "IP"
    /\ GetRelayPort(last.pre) = 1
    /\ GetType(objs[last.src]) = "Unspecified"

\* The relay coordinates of the destination of the last operation are those
\* of the source Endpoint before it.
RelayFromEndpoint ==
    last.op \in FromEndpointOps =>
        /\ GetRelayPort(objs[last.dst]) = GetRelayPort(last.pre)
        /\ GetRelayHop(objs[last.dst]) = GetRelayHop(last.pre)

\* C4 as claimed: an Endpoint constructed from ANY concrete IPEndpoint or
\* BTHEndpoint value, or copied or moved from another Endpoint, reports the
\* relay port and relay hop the source carried.
C4_Original ==
    /\ Constructed =>
         /\ GetRelayPort(objs[last.dst]) = last.arg.RelayPort
         /\ GetRelayHop(objs[last.dst]) = last.arg.RelayHop
    /\ RelayFromEndpoint

\* C4 amended: an Endpoint constructed from a concrete value whose protocol
\* is valid for its family, or copied or moved from another Endpoint, reports
\* the relay port and relay hop the source carried; one constructed from a
\* concrete value of any other protocol is Unspecified and reports 0 and 0.
C4_RelayCarried ==
    /\ (Constructed /\ last.arg.Protocol \in FamilyProtocols(last.op)) =>
         /\ GetRelayPort(objs[last.dst]) = last.arg.RelayPort
         /\ GetRelayHop(objs[last.dst]) = last.arg.RelayHop
    /\ (Constructed /\ last.arg.Protocol \notin FamilyProtocols(last.op)) =>
         /\ GetRelayPort(objs[last.dst]) = 0
         /\ GetRelayHop(objs[last.dst]) = 0
    /\ RelayFromEndpoint

C4_Witness ==
    /\ last.op = "CopyAssign"
    /\ last.dst # last.src
    /\ GetType(last.pre) = "BTH"
    /\ GetRelayPort(objs[last.dst]) = 1
    /\ GetRelayHop(objs[last.dst]) = 2

\* C5: an Endpoint constructed from an IPEndpoint or BTHEndpoint whose
\* protocol is Unspecified has type Unspecified, relay port 0 and relay hop
\* 0 whatever the source carried, and equals a default-constructed Endpoint.
C5_DegradeToUnspecified ==
    (last.op \in ConstructOps /\ last.arg.Protocol = "Unspecified") =>
        /\ Constructed
        /\ GetType(objs[last.dst]) = "Unspecified"
        /\ GetRelayPort(objs[last.dst]) = 0
        /\ GetRelayHop(objs[last.dst]) = 0
        /\ OpEq(objs[last.dst], DefaultEndpoint)
        /\ OpEq(DefaultEndpoint, objs[last.dst])

C5_Witness ==
    /\ last.op = "ConstructBTH"
    /\ last.arg.Protocol = "Unspecified"
    /\ last.arg.RelayPort = 1
    /\ last.arg.RelayHop = 2
    /\ GetType(objs[last.dst]) = "Unspecified"

\* The concrete endpoint of the construction was built with a protocol of
\* the other family.
Mismatched ==
    /\ last.op \in ConstructOps
    /\ last.req \notin FamilyProtocols(last.op) \cup {"Unspecified"}

Structural(a, b) ==
    /\ GetType(a) = GetType(b)
    /\ \/ GetType(a) = "Unspecified"
       \/ a.payload = b.payload

\* C7: a == b holds exactly when a and b have the same active type and are
\* both Unspecified or hold payloads equal in every field, relay port and
\* relay hop included; an IP Endpoint never equals a BTH one, any two
\* Unspecified Endpoints are equal, and a != b is the negation of a == b.
C7_StructuralEquality ==
    last.op = "Compare" =>
        LET a == objs[last.dst]
            b == objs[last.src]
        IN  /\ last.ret.eq <=> Structural(a, b)
            /\ last.ret.ne <=> ~last.ret.eq
            /\ (GetType(a) = "IP" /\ GetType(b) = "BTH") => ~last.ret.eq
            /\ (GetType(a) = "Unspecified" /\ GetType(b) = "Unspecified") => last.ret.eq
            /\ (GetType(a) = GetType(b) /\ GetRelayHop(a) # GetRelayHop(b)) => ~last.ret.eq

\* Two IP endpoints that differ in the relay hop alone were compared.
C7_Witness ==
    /\ last.op = "Compare"
    /\ GetType(objs[last.dst]) = "IP"
    /\ GetType(objs[last.src]) = "IP"
    /\ objs[last.dst].payload.RelayHop # objs[last.src].payload.RelayHop
    /\ [objs[last.dst].payload EXCEPT !.RelayHop = 0]
         = [objs[last.src].payload EXCEPT !.RelayHop = 0]
    /\ ~last.ret.eq
    /\ last.ret.ne

\* C8: a = a and a = std::move(a) leave a's active type and payload as they
\* were; a self-move does not reset a to Unspecified.
C8_SelfAssignment ==
    (last.op \in {"CopyAssign", "MoveAssign"} /\ last.dst = last.src) =>
        /\ objs[last.dst] = last.pre
        /\ GetType(objs[last.dst]) = GetType(last.pre)

C8_Witness ==
    /\ last.op = "MoveAssign"
    /\ last.dst = last.src
    /\ GetType(objs[last.dst]) = "IP"

\* The type an accessor asserts.
AssertedType(op) == IF op = "GetIPEndpoint" THEN "IP" ELSE "BTH"
AccessorOps == {"GetIPEndpoint", "GetBTHEndpoint"}

\* C9 as claimed: in any reachable state a call of GetIPEndpoint() or
\* GetBTHEndpoint() on an Endpoint of another active type is an assertion
\* failure and never returns a payload.
C9_Original ==
    (last.op \in AccessorOps /\ GetType(last.pre) # AssertedType(last.op)) =>
        /\ last.ret.outcome = "assert_failed"
        /\ last.ret.outcome # "returned"

\* C9 amended: where assertions are checked, a call of GetIPEndpoint() or
\* GetBTHEndpoint() returns exactly when the active type matches, and then
\* returns the stored payload, and is an assertion failure otherwise; where
\* assertions are compiled out the call returns whatever the type, and what
\* it returns from storage whose active member is m_Dummy is indeterminate.
C9_AccessorAsserts ==
    last.op \in AccessorOps =>
        LET matches == GetType(last.pre) = AssertedType(last.op)
        IN  /\ last.ret.outcome \in {"returned", "assert_failed"}
            /\ last.ret.outcome = "assert_failed" <=> (~matches /\ ~ndebug)
            /\ last.ret.outcome = "assert_failed" <=> aborted
            /\ (matches /\ last.ret.outcome = "returned") =>
                 last.ret.values = {last.pre.payload}
            /\ (last.ret.outcome = "returned" /\ last.pre.member = "Dummy") =>
                 last.ret.values = Indeterminate

C9_Witness ==
    /\ last.op = "GetIPEndpoint"
    /\ GetType(last.pre) = "Unspecified"
    /\ last.pre.member = "IP"
    /\ last.ret.outcome = "assert_failed"

----------------------------------------------------------------------------
(* Properties of SourceReader *)

\* C10 as claimed: Open (and the CreateSourceReader it calls) returns
\* Succeeded only when every step succeeded, and after an Open of a closed
\* reader in which any step failed the result is a failure and IsOpen() is
\* false.
C10_FailedOpenReleases ==
    openLast.called =>
        /\ Succeeded(openLast.code) => openLast.failAt = "None"
        /\ (openLast.failAt # "None" /\ ~openLast.wasOpen) =>
             /\ Failed(openLast.code)
             /\ ~IsOpen(reader)

\* The threads inside a critical section on the source reader data.
InCriticalSection == {t \in {"app", "cb"} : pc[t] \in {"open_cs", "close_cs", "cb_cs"}}

\* OnReadSample and Close (or Open) are never in their critical sections at
\* the same time, and whoever is in one holds the lock.
MutualExclusion ==
    /\ Cardinality(InCriticalSection) <= 1
    /\ \A t \in InCriticalSection : lock = t

\* C11: under any interleaving of OnReadSample with Open and Close, the
\* critical sections of OnReadSample and Close never overlap, and
\* OnReadSample never requests the next sample through a source reader that
\* Close or a failed Open has released.
C11_NoUseAfterRelease ==
    /\ MutualExclusion
    /\ ~nullDeref

====
